---- MODULE Spec2Model ----
(***************************************************************************)
(* A model of the virtio-net frontend of src/lib/pci_virtio_net.c: the     *)
(* per-device softc, the transmit thread, the TX and RX notify callbacks,  *)
(* the receive callback, the reset handler and feature negotiation.        *)
(*                                                                         *)
(* Every action is one atomic step of one thread.  A step holds at most    *)
(* one access to state another thread may touch without a lock             *)
(* (sc->resetting, sc->vsc_rx_ready, the rings, the backend); a critical   *)
(* section that touches only what its mutex protects is one step.  The     *)
(* label in an action's name and in the pc values is the source line of    *)
(* the statement the step executes.                                        *)
(*                                                                         *)
(* The virtqueue layer (virtio.c), the backend (net_backends.c) and the    *)
(* guest driver are not part of the file; they are modelled by what the    *)
(* file's calls need of them: a ring is a list of available chains, a list *)
(* of used (completed) entries and the NO_NOTIFY flag; the backend is a    *)
(* list of pending datagrams and a log of the frames sent.                 *)
(***************************************************************************)
EXTENDS Integers, Sequences, FiniteSets, TLC

VARIABLES
    sc,         \* struct pci_vtnet_softc: the fields the handlers use
    vq,         \* sc->vsc_queues[]: per queue the avail list, used list, flag
    be,         \* sc->vsc_be: pending datagrams, frames sent, capabilities set
    tx_mtx,     \* owner of sc->tx_mtx ("none" when free)
    rx_mtx,     \* owner of sc->rx_mtx ("none" when free)
    tx_wake,    \* a pthread_cond_signal(&sc->tx_cond) reached the waiting thread
    tx_pc,      \* position of pci_vtnet_tx_thread
    tx_iov,     \* pci_vtnet_proctx locals: the pulled chain and len
    ping_pc,    \* position of pci_vtnet_ping_txq
    rx_pc,      \* position of each thread running pci_vtnet_rx_callback
    rx_iov,     \* pci_vtnet_rx locals: the pulled chain and len
    reset_pc,   \* position of pci_vtnet_reset
    env,        \* what the guest and the network did so far (bounded), how
                \* attach went and what the last config access returned
    tx_log,     \* history: queue and backend calls of the current TX burst
    rx_log,     \* history: queue and backend calls of the current rx invocation
    rx_snap,    \* history: the RX ring and backend when the fill loop was entered,
                \* and whether the device was not rx_ready or was resetting at
                \* every moment of the receive call so far (gated)
    rs_snap,    \* history: the TX side as it was when the last reset began
    rx_quiet    \* history: reset returned and the RX queue was not notified since

vars == << sc, vq, be, tx_mtx, rx_mtx, tx_wake, tx_pc, tx_iov, ping_pc,
           rx_pc, rx_iov, reset_pc, env, tx_log, rx_log, rx_snap, rs_snap,
           rx_quiet >>

(***************************************************************************)
(* Program constants.                                                      *)
(***************************************************************************)
VTNET_RXQ == 0
VTNET_TXQ == 1
\* sizeof(struct virtio_net_rxhdr): the header with the num_buffers field
RXHDR_SIZE == 12
\* sizeof(sc->vsc_config.mac)
MAC_SIZE == 6

(***************************************************************************)
(* Bounds of the model.                                                    *)
(***************************************************************************)
MaxTxPost == 2      \* TX chains the guest posts in a run
MaxRxPost == 2      \* RX chains the guest posts in a run
MaxDgrams == 2      \* datagrams that arrive at the backend in a run
MaxErrors == 1      \* netbe_recv calls that fail in a run
MaxResets == 1      \* device resets in a run
MaxNeg == 2         \* feature negotiations between two resets
MaxCfgWrites == 2   \* config-space writes of the guest in a run
MaxCfgReads == 1    \* config-space reads of the guest in a run

RxThreads == {"ev1", "ev2"}     \* threads the backend may call back on

(***************************************************************************)
(* 32-bit unsigned values.  TLC's integers stop below 2^32, so a uint32_t  *)
(* (and the wider sum it is compared with) is kept as two 16-bit halves:   *)
(* the value of [hi, lo] is hi * 2^16 + lo.                                *)
(***************************************************************************)
W16 == 2^16

U32(h, l) == [hi |-> h, lo |-> l]

ToU32(n) == [hi |-> (n \div W16) % W16, lo |-> n % W16]

\* a + b without truncation: hi may exceed 16 bits
AddWide(a, b) ==
    LET l == a.lo + b.lo
    IN  [hi |-> a.hi + b.hi + (l \div W16), lo |-> l % W16]

\* the assignment of a wide value to a uint32_t
TruncU32(a) == [hi |-> a.hi % W16, lo |-> a.lo]

(***************************************************************************)
(* Chains, ring operations (virtio.c) and the values the environment       *)
(* chooses from.                                                           *)
(***************************************************************************)
NoChain == [id |-> 0, segs |-> << >>]

\* the iovecs of the TX chains a guest posts: one frame of 1514 bytes in
\* three segments, a one-segment frame, and two segments of 2^31 bytes
TxShapes ==
    { << U32(0, 14), U32(0, 1000), U32(0, 500) >>,
      << U32(0, 60) >>,
      << U32(32768, 0), U32(32768, 0) >> }

\* the iovec of an RX chain: one buffer of 2048 bytes
RxShape == << U32(0, 2048) >>

\* lengths netbe_recv reports for the datagrams that arrive
DgramLens == {60, 1500}

\* vq_has_descs(vq)
vq_has_descs(q) == Len(vq[q].avail) > 0

\* vq_getchain(vq, &idx, iov, VTNET_MAXSEGS, NULL): the next available chain
vq_getchain(q) == [vq EXCEPT ![q].avail = Tail(@)]

\* vq_retchain(vq): the chain pulled last is available again
vq_retchain(q, chain) == [vq EXCEPT ![q].avail = << chain >> \o @]

\* vq_relchain(vq, idx, len): the chain goes to the used ring with its length
vq_relchain(q, chain, len) ==
    [vq EXCEPT ![q].used = Append(@, [id |-> chain.id, len |-> len])]

\* an entry of tx_log or rx_log: the call, the chain, the length passed or
\* returned, and the force argument of vq_endchains
Ev(o, i, l, f) == [op |-> o, id |-> i, len |-> l, force |-> f]

Zero32 == U32(0, 0)

NoSnap == [taken |-> FALSE, n |-> 0, pending |-> << >>, stable |-> TRUE,
           gated |-> FALSE]

(***************************************************************************)
(* pci_vtnet_init: the state when attach returns.  calloc zeroes the       *)
(* softc; the tx thread exists and has not yet run.                        *)
(***************************************************************************)
\* the opts string: none, a device name, a device name and a MAC address
\* that net_parsemac accepts or rejects
AttachOpts == {"NULL", "dev", "dev,mac", "dev,badmac"}

\* the address net_genmac derives and the one written in opts
GenMac == << 0, 160, 152, 17, 34, 51 >>
OptMac == << 2, 0, 0, 0, 0, 1 >>

\* 475-503: the value pci_vtnet_init returns early with, or 0
attach_rc(opts, intr_ok) ==
    IF opts = "dev,badmac" THEN 22      \* 484-486: net_parsemac failed
    ELSE IF ~intr_ok THEN 1             \* 519-520: vi_intr_init failed
    ELSE 0

\* 491-492: sc->vsc_be is set when opts names a device and netbe_init opens it
attach_be(opts, be_ok) == opts # "NULL" /\ be_ok

\* 483, 502, 513: sc->vsc_config as pci_vtnet_init leaves it
attach_config(opts, be_ok) ==
    [ mac    |-> IF opts = "dev,mac" THEN OptMac ELSE GenMac,
      status |-> IF opts = "NULL" \/ attach_be(opts, be_ok) THEN 1 ELSE 0,
      max_virtqueue_pairs |-> 0 ]

\* the state pci_vtnet_init(pi, opts) returns in
Attached(opts, be_ok, intr_ok) ==
    /\ sc = [ vsc_rx_ready   |-> FALSE,
              resetting      |-> FALSE,
              vsc_features   |-> {},
              rx_vhdrlen     |-> RXHDR_SIZE,
              rx_merge       |-> TRUE,
              tx_in_progress |-> FALSE,
              vsc_config     |-> attach_config(opts, be_ok) ]
    /\ vq = [ q \in {VTNET_RXQ, VTNET_TXQ} |->
                [avail |-> << >>, used |-> << >>, no_notify |-> FALSE] ]
    /\ be = [ open |-> attach_be(opts, be_ok),
              pending |-> << >>, sent |-> << >>,
              cap |-> [set |-> FALSE, features |-> {}, vhdrlen |-> 0] ]
    /\ tx_mtx = "none"
    /\ rx_mtx = "none"
    /\ tx_wake = FALSE
    /\ tx_pc = IF attach_rc(opts, intr_ok) = 0 THEN "start" ELSE "none"
    /\ tx_iov = [chain |-> NoChain, len |-> Zero32]
    /\ ping_pc = "idle"
    /\ rx_pc = [t \in RxThreads |-> "idle"]
    /\ rx_iov = [chain |-> NoChain, len |-> 0]
    /\ reset_pc = "idle"
    /\ env = [ tx_posted |-> 0, rx_posted |-> 0, arrived |-> 0, errors |-> 0,
               resets |-> 0, negs |-> 0, kick |-> FALSE, tx_done |-> {},
               opts |-> opts, intr_ok |-> intr_ok,
               attach |-> attach_rc(opts, intr_ok),
               cfg_writes |-> 0, cfg_reads |-> 0, cfg_rc |-> 0, cfg_read |-> << >>,
               halted |-> FALSE ]
    /\ tx_log = << >>
    /\ rx_log = << >>
    /\ rx_snap = NoSnap
    /\ rs_snap = [taken |-> FALSE, tip |-> FALSE, inloop |-> FALSE, ids |-> {}]
    /\ rx_quiet = FALSE

\* a device attached to a backend that opened, with a generated address
Init == Attached("dev", TRUE, TRUE)

\* every way pci_vtnet_init can go
AttachInit ==
    \E opts \in AttachOpts, be_ok \in BOOLEAN, intr_ok \in BOOLEAN :
        Attached(opts, be_ok, intr_ok)

(***************************************************************************)
(* The guest driver and the network.                                       *)
(***************************************************************************)
\* The guest puts a chain on the TX ring and then reads the NO_NOTIFY flag:
\* with the flag clear it owes a write of the notify register.
GuestPostTx(shape) ==
    /\ env.tx_posted < MaxTxPost
    /\ vq' = [vq EXCEPT ![VTNET_TXQ].avail =
                Append(@, [id |-> env.tx_posted + 1, segs |-> shape])]
    /\ env' = [env EXCEPT !.tx_posted = @ + 1,
                          !.kick = @ \/ ~vq[VTNET_TXQ].no_notify]
    /\ UNCHANGED << sc, be, tx_mtx, rx_mtx, tx_wake, tx_pc, tx_iov, ping_pc,
                    rx_pc, rx_iov, reset_pc, tx_log, rx_log, rx_snap, rs_snap,
                    rx_quiet >>

(***************************************************************************)
(* pci_vtnet_proctx: the sum of the segment lengths, kept in a uint32_t.   *)
(***************************************************************************)
RECURSIVE proctx_len(_, _)
proctx_len(segs, n) ==
    IF n = 0 THEN Zero32
    ELSE TruncU32(AddWide(proctx_len(segs, n - 1), segs[n]))

\* the sum of the segment lengths as a number (no width)
RECURSIVE chain_len(_, _)
chain_len(segs, n) ==
    IF n = 0 THEN Zero32 ELSE AddWide(chain_len(segs, n - 1), segs[n])

(***************************************************************************)
(* pci_vtnet_tx_thread                                                     *)
(***************************************************************************)
TxWaiting == tx_pc \in {"wait394", "wait406"}

TxUnch == << be, rx_mtx, ping_pc, rx_pc, rx_iov, reset_pc, env, rx_log,
             rx_snap, rs_snap, rx_quiet >>

\* 393-394: lock tx_mtx and wait for the first signal (the wait unlocks)
Tx393 ==
    /\ tx_pc = "start"
    /\ tx_mtx = "none"
    /\ tx_pc' = "wait394"
    /\ UNCHANGED << sc, vq, tx_mtx, tx_wake, tx_iov, tx_log >>
    /\ UNCHANGED TxUnch

\* pthread_cond_wait returns: signalled, with the mutex taken again
TxWake ==
    /\ TxWaiting
    /\ tx_wake
    /\ tx_mtx = "none"
    /\ tx_mtx' = "tx"
    /\ tx_wake' = FALSE
    /\ tx_pc' = "l399"
    /\ UNCHANGED << sc, vq, tx_iov, tx_log >>
    /\ UNCHANGED TxUnch

\* pthread_cond_wait returns with no signal (POSIX allows a spurious wakeup)
TxSpuriousWake ==
    /\ TxWaiting
    /\ ~tx_wake
    /\ tx_mtx = "none"
    /\ tx_mtx' = "tx"
    /\ tx_pc' = "l399"
    /\ UNCHANGED << sc, vq, tx_wake, tx_iov, tx_log >>
    /\ UNCHANGED TxUnch

\* 399: while (sc->resetting || ...
Tx399a ==
    /\ tx_pc = "l399"
    /\ tx_pc' = IF sc.resetting THEN "l400" ELSE "l399b"
    /\ UNCHANGED << sc, vq, tx_mtx, tx_wake, tx_iov, tx_log >>
    /\ UNCHANGED TxUnch

\* 399: ... || !vq_has_descs(vq))
Tx399b ==
    /\ tx_pc = "l399b"
    /\ tx_pc' = IF vq_has_descs(VTNET_TXQ) THEN "l409" ELSE "l400"
    /\ UNCHANGED << sc, vq, tx_mtx, tx_wake, tx_iov, tx_log >>
    /\ UNCHANGED TxUnch

\* 400: vq->vq_used->vu_flags &= ~VRING_USED_F_NO_NOTIFY
Tx400 ==
    /\ tx_pc = "l400"
    /\ vq' = [vq EXCEPT ![VTNET_TXQ].no_notify = FALSE]
    /\ tx_pc' = "l402"
    /\ UNCHANGED << sc, tx_mtx, tx_wake, tx_iov, tx_log >>
    /\ UNCHANGED TxUnch

\* 402: if (!sc->resetting && ...
Tx402a ==
    /\ tx_pc = "l402"
    /\ tx_pc' = IF sc.resetting THEN "l405" ELSE "l402b"
    /\ UNCHANGED << sc, vq, tx_mtx, tx_wake, tx_iov, tx_log >>
    /\ UNCHANGED TxUnch

\* 402: ... && vq_has_descs(vq)) break
Tx402b ==
    /\ tx_pc = "l402b"
    /\ tx_pc' = IF vq_has_descs(VTNET_TXQ) THEN "l409" ELSE "l405"
    /\ UNCHANGED << sc, vq, tx_mtx, tx_wake, tx_iov, tx_log >>
    /\ UNCHANGED TxUnch

\* lines 405-406 without the store: the tx thread waits with tx_in_progress
\* still 1
Tx405_keep_in_progress ==
    /\ tx_pc = "l405"
    /\ tx_mtx' = "none"
    /\ tx_pc' = "wait406"
    /\ UNCHANGED << sc, vq, tx_wake, tx_iov, tx_log >>
    /\ UNCHANGED TxUnch

\* 405-406: tx_in_progress = 0 and wait (the wait unlocks tx_mtx)
Tx405 ==
    /\ tx_pc = "l405"
    /\ sc' = [sc EXCEPT !.tx_in_progress = FALSE]
    /\ tx_mtx' = "none"
    /\ tx_pc' = "wait406"
    /\ UNCHANGED << vq, tx_wake, tx_iov, tx_log >>
    /\ UNCHANGED TxUnch

\* lines 409-411 without the store: the tx thread drains with
\* tx_in_progress still 0
Tx409_no_flag ==
    /\ tx_pc = "l409"
    /\ vq' = [vq EXCEPT ![VTNET_TXQ].no_notify = TRUE]
    /\ tx_mtx' = "none"
    /\ tx_pc' = "l336"
    /\ tx_log' = << >>
    /\ UNCHANGED << sc, tx_wake, tx_iov >>
    /\ UNCHANGED TxUnch

\* 409-411: set NO_NOTIFY, tx_in_progress = 1, unlock
Tx409 ==
    /\ tx_pc = "l409"
    /\ vq' = [vq EXCEPT ![VTNET_TXQ].no_notify = TRUE]
    /\ sc' = [sc EXCEPT !.tx_in_progress = TRUE]
    /\ tx_mtx' = "none"
    /\ tx_pc' = "l336"
    /\ tx_log' = << >>
    /\ UNCHANGED << tx_wake, tx_iov >>
    /\ UNCHANGED TxUnch

\* 336-341 (pci_vtnet_proctx): pull the next chain and sum its segments
Tx336 ==
    /\ tx_pc = "l336"
    /\ vq_has_descs(VTNET_TXQ)
    /\ LET chain == Head(vq[VTNET_TXQ].avail)
       IN  /\ vq' = vq_getchain(VTNET_TXQ)
           /\ tx_iov' = [chain |-> chain,
                         len |-> proctx_len(chain.segs, Len(chain.segs))]
           /\ tx_log' = Append(tx_log,
                   Ev("pull", chain.id, chain_len(chain.segs, Len(chain.segs)),
                      FALSE))
    /\ tx_pc' = "l343"
    /\ UNCHANGED << sc, tx_mtx, tx_wake >>
    /\ UNCHANGED TxUnch

\* 343: netbe_send(sc->vsc_be, iov, n, len, 0)
Tx343 ==
    /\ tx_pc = "l343"
    /\ be' = [be EXCEPT !.sent =
                Append(@, [id |-> tx_iov.chain.id, len |-> tx_iov.len])]
    /\ tx_log' = Append(tx_log, Ev("send", tx_iov.chain.id, tx_iov.len, FALSE))
    /\ tx_pc' = "l346"
    /\ UNCHANGED << sc, vq, tx_mtx, tx_wake, tx_iov >>
    /\ UNCHANGED << rx_mtx, ping_pc, rx_pc, rx_iov, reset_pc, env, rx_log,
                    rx_snap, rs_snap, rx_quiet >>

\* 346: vq_relchain(vq, idx, len)
Tx346 ==
    /\ tx_pc = "l346"
    /\ vq' = vq_relchain(VTNET_TXQ, tx_iov.chain, tx_iov.len)
    /\ tx_log' = Append(tx_log, Ev("rel", tx_iov.chain.id, tx_iov.len, FALSE))
    /\ tx_iov' = [chain |-> NoChain, len |-> Zero32]
    /\ env' = [env EXCEPT !.tx_done = @ \cup {tx_iov.chain.id}]
    /\ tx_pc' = "l420"
    /\ UNCHANGED << sc, tx_mtx, tx_wake >>
    /\ UNCHANGED << be, rx_mtx, ping_pc, rx_pc, rx_iov, reset_pc, rx_log,
                    rx_snap, rs_snap, rx_quiet >>

\* the drain loop as it would be if it also stopped on a reset
Tx420_stop_on_reset ==
    /\ tx_pc = "l420"
    /\ tx_pc' = IF vq_has_descs(VTNET_TXQ) /\ ~sc.resetting THEN "l336" ELSE "l425"
    /\ UNCHANGED << sc, vq, tx_mtx, tx_wake, tx_iov, tx_log >>
    /\ UNCHANGED TxUnch

\* 420: } while (vq_has_descs(vq))
Tx420 ==
    /\ tx_pc = "l420"
    /\ tx_pc' = IF vq_has_descs(VTNET_TXQ) THEN "l336" ELSE "l425"
    /\ UNCHANGED << sc, vq, tx_mtx, tx_wake, tx_iov, tx_log >>
    /\ UNCHANGED TxUnch

\* 425: vq_endchains(vq, 1)
Tx425 ==
    /\ tx_pc = "l425"
    /\ tx_log' = Append(tx_log, Ev("flush", 0, Zero32, TRUE))
    /\ tx_pc' = "l427"
    /\ UNCHANGED << sc, vq, tx_mtx, tx_wake, tx_iov >>
    /\ UNCHANGED TxUnch

\* 427: pthread_mutex_lock(&sc->tx_mtx), back to the top of the loop
Tx427 ==
    /\ tx_pc = "l427"
    /\ tx_mtx = "none"
    /\ tx_mtx' = "tx"
    /\ tx_log' = << >>
    /\ tx_pc' = "l399"
    /\ UNCHANGED << sc, vq, tx_wake, tx_iov >>
    /\ UNCHANGED TxUnch

pci_vtnet_tx_thread ==
    \/ Tx393 \/ TxWake \/ TxSpuriousWake
    \/ Tx399a \/ Tx399b \/ Tx400 \/ Tx402a \/ Tx402b \/ Tx405 \/ Tx409
    \/ Tx336 \/ Tx343 \/ Tx346 \/ Tx420 \/ Tx425 \/ Tx427

(***************************************************************************)
(* pci_vtnet_ping_txq: the guest wrote the notify register of the TX queue *)
(***************************************************************************)
PingUnch == << be, rx_mtx, tx_pc, tx_iov, rx_pc, rx_iov, reset_pc, tx_log,
               rx_log, rx_snap, rs_snap, rx_quiet >>

\* 358: if (!vq_has_descs(vq)) return
Ping358 ==
    /\ ping_pc = "idle"
    /\ ping_pc' = IF vq_has_descs(VTNET_TXQ) THEN "l362" ELSE "idle"
    /\ env' = [env EXCEPT !.kick = FALSE]
    /\ UNCHANGED << sc, vq, tx_mtx, tx_wake >>
    /\ UNCHANGED PingUnch

\* 362-366: under tx_mtx set NO_NOTIFY and signal unless tx_in_progress
Ping362 ==
    /\ ping_pc = "l362"
    /\ tx_mtx = "none"
    /\ vq' = [vq EXCEPT ![VTNET_TXQ].no_notify = TRUE]
    /\ tx_wake' = IF ~sc.tx_in_progress /\ TxWaiting THEN TRUE ELSE tx_wake
    /\ ping_pc' = "idle"
    /\ UNCHANGED << sc, tx_mtx, env >>
    /\ UNCHANGED PingUnch

pci_vtnet_ping_txq == Ping358 \/ Ping362

(***************************************************************************)
(* The network and the guest's RX buffers.                                 *)
(***************************************************************************)
\* a datagram arrives at the backend
BeArrive(len) ==
    /\ env.arrived < MaxDgrams
    /\ be' = [be EXCEPT !.pending = Append(@, len)]
    /\ env' = [env EXCEPT !.arrived = @ + 1]
    /\ rx_snap' = IF rx_snap.taken THEN [rx_snap EXCEPT !.stable = FALSE]
                  ELSE rx_snap
    /\ UNCHANGED << sc, vq, tx_mtx, rx_mtx, tx_wake, tx_pc, tx_iov, ping_pc,
                    rx_pc, rx_iov, reset_pc, tx_log, rx_log, rs_snap, rx_quiet >>

\* the guest puts a chain on the RX ring
GuestPostRx ==
    /\ env.rx_posted < MaxRxPost
    /\ vq' = [vq EXCEPT ![VTNET_RXQ].avail =
                Append(@, [id |-> env.rx_posted + 1, segs |-> RxShape])]
    /\ env' = [env EXCEPT !.rx_posted = @ + 1]
    /\ rx_snap' = IF rx_snap.taken THEN [rx_snap EXCEPT !.stable = FALSE]
                  ELSE rx_snap
    /\ UNCHANGED << sc, be, tx_mtx, rx_mtx, tx_wake, tx_pc, tx_iov, ping_pc,
                    rx_pc, rx_iov, reset_pc, tx_log, rx_log, rs_snap, rx_quiet >>

(***************************************************************************)
(* pci_vtnet_rx_callback and pci_vtnet_rx                                  *)
(***************************************************************************)
RxUnch == << tx_mtx, tx_wake, tx_pc, tx_iov, ping_pc, reset_pc, tx_log,
             rs_snap, rx_quiet >>

\* the backend's event loop sees data to read and calls the callback
RxCallback(t) ==
    /\ rx_pc[t] = "idle"
    /\ Len(be.pending) > 0
    /\ rx_pc' = [rx_pc EXCEPT ![t] = "l303"]
    /\ UNCHANGED << sc, vq, be, rx_mtx, rx_iov, env, rx_log, rx_snap >>
    /\ UNCHANGED RxUnch

\* pci_vtnet_rx_callback as it would be without waiting for rx_mtx
Rx303_no_lock(t) ==
    /\ rx_pc[t] = "l303"
    /\ rx_mtx' = t
    /\ rx_pc' = [rx_pc EXCEPT ![t] = "l243"]
    /\ rx_snap' = [NoSnap EXCEPT !.gated = ~sc.vsc_rx_ready \/ sc.resetting]
    /\ UNCHANGED << sc, vq, be, rx_iov, env, rx_log >>
    /\ UNCHANGED RxUnch

\* 303: pthread_mutex_lock(&sc->rx_mtx)
Rx303(t) ==
    /\ rx_pc[t] = "l303"
    /\ rx_mtx = "none"
    /\ rx_mtx' = t
    /\ rx_pc' = [rx_pc EXCEPT ![t] = "l243"]
    /\ rx_snap' = [NoSnap EXCEPT !.gated = ~sc.vsc_rx_ready \/ sc.resetting]
    /\ UNCHANGED << sc, vq, be, rx_iov, env, rx_log >>
    /\ UNCHANGED RxUnch

\* 243: if (!sc->vsc_rx_ready || ...
Rx243a(t) ==
    /\ rx_pc[t] = "l243"
    /\ rx_pc' = [rx_pc EXCEPT ![t] = IF sc.vsc_rx_ready THEN "l243b" ELSE "l248"]
    /\ UNCHANGED << sc, vq, be, rx_mtx, rx_iov, env, rx_log, rx_snap >>
    /\ UNCHANGED RxUnch

\* 243: ... || sc->resetting)
Rx243b(t) ==
    /\ rx_pc[t] = "l243b"
    /\ rx_pc' = [rx_pc EXCEPT ![t] = IF sc.resetting THEN "l248" ELSE "l253"]
    /\ UNCHANGED << sc, vq, be, rx_mtx, rx_iov, env, rx_log, rx_snap >>
    /\ UNCHANGED RxUnch

\* pci_vtnet_rx_discard: netbe_recv into dummybuf, the result is not looked at.
\* The backend hands over the oldest datagram, or has none, or fails (the
\* datagram then stays with it).  The log entry names the calling line.
rx_discard(t, line, next) ==
    /\ \/ /\ be.pending # << >>
          /\ be' = [be EXCEPT !.pending = Tail(@)]
          /\ rx_log' = Append(rx_log, Ev("discard", line, Head(be.pending), FALSE))
          /\ env' = env
       \/ /\ be.pending = << >>
          /\ be' = be
          /\ rx_log' = Append(rx_log, Ev("discard", line, 0, FALSE))
          /\ env' = env
       \/ /\ env.errors < MaxErrors
          /\ be' = be
          /\ rx_log' = Append(rx_log, Ev("discard", line, -1, FALSE))
          /\ env' = [env EXCEPT !.errors = @ + 1]
    /\ rx_pc' = [rx_pc EXCEPT ![t] = next]
    /\ UNCHANGED << sc, vq, rx_mtx, rx_iov, rx_snap >>
    /\ UNCHANGED RxUnch

\* 248-249: not ready or resetting: drop a packet and return
Rx248(t) ==
    /\ rx_pc[t] = "l248"
    /\ rx_discard(t, 248, "l305")

\* 253: if (!vq_has_descs(vq))
Rx253(t) ==
    /\ rx_pc[t] = "l253"
    /\ IF vq_has_descs(VTNET_RXQ)
       THEN /\ rx_pc' = [rx_pc EXCEPT ![t] = "l265"]
            /\ rx_snap' = [taken |-> TRUE, n |-> Len(vq[VTNET_RXQ].avail),
                           pending |-> be.pending, stable |-> TRUE,
                           gated |-> rx_snap.gated]
       ELSE /\ rx_pc' = [rx_pc EXCEPT ![t] = "l258"]
            /\ rx_snap' = rx_snap
    /\ UNCHANGED << sc, vq, be, rx_mtx, rx_iov, env, rx_log >>
    /\ UNCHANGED RxUnch

\* 258: no available rx buffers: drop a packet
Rx258(t) ==
    /\ rx_pc[t] = "l258"
    /\ rx_discard(t, 258, "l259")

\* line 259 as it would be with vq_endchains(vq, 0)
Rx259_unforced(t) ==
    /\ rx_pc[t] = "l259"
    /\ rx_log' = Append(rx_log, Ev("flush", 0, 0, FALSE))
    /\ rx_pc' = [rx_pc EXCEPT ![t] = "l305"]
    /\ UNCHANGED << sc, vq, be, rx_mtx, rx_iov, env, rx_snap >>
    /\ UNCHANGED RxUnch

\* 259-260: vq_endchains(vq, 1) and return
Rx259(t) ==
    /\ rx_pc[t] = "l259"
    /\ rx_log' = Append(rx_log, Ev("flush", 0, 0, TRUE))
    /\ rx_pc' = [rx_pc EXCEPT ![t] = "l305"]
    /\ UNCHANGED << sc, vq, be, rx_mtx, rx_iov, env, rx_snap >>
    /\ UNCHANGED RxUnch

\* 265: n = vq_getchain(vq, &idx, iov, VTNET_MAXSEGS, NULL)
Rx265(t) ==
    /\ rx_pc[t] = "l265"
    /\ vq_has_descs(VTNET_RXQ)
    /\ LET chain == Head(vq[VTNET_RXQ].avail)
       IN  /\ vq' = vq_getchain(VTNET_RXQ)
           /\ rx_iov' = [chain |-> chain, len |-> 0]
           /\ rx_log' = Append(rx_log, Ev("pull", chain.id, 0, FALSE))
    /\ rx_pc' = [rx_pc EXCEPT ![t] = "l268"]
    /\ UNCHANGED << sc, be, rx_mtx, env, rx_snap >>
    /\ UNCHANGED RxUnch

\* lines 268-282 as they would be with a return, not a break, at line 271
Rx268_error_returns(t) ==
    /\ rx_pc[t] = "l268"
    /\ \/ /\ be.pending # << >>
          /\ be' = [be EXCEPT !.pending = Tail(@)]
          /\ rx_iov' = [rx_iov EXCEPT !.len = Head(be.pending)]
          /\ rx_log' = Append(rx_log,
                              Ev("recv", rx_iov.chain.id, Head(be.pending), FALSE))
          /\ rx_pc' = [rx_pc EXCEPT ![t] = "l285"]
          /\ UNCHANGED << env, rx_snap >>
       \/ /\ be.pending = << >>
          /\ be' = be
          /\ rx_iov' = [rx_iov EXCEPT !.len = 0]
          /\ rx_log' = Append(rx_log, Ev("recv", rx_iov.chain.id, 0, FALSE))
          /\ rx_pc' = [rx_pc EXCEPT ![t] = "l279"]
          /\ UNCHANGED << env, rx_snap >>
       \/ /\ env.errors < MaxErrors
          /\ be' = be
          /\ rx_iov' = [rx_iov EXCEPT !.len = -1]
          /\ rx_log' = Append(rx_log, Ev("recv", rx_iov.chain.id, -1, FALSE))
          /\ rx_pc' = [rx_pc EXCEPT ![t] = "l305"]
          /\ env' = [env EXCEPT !.errors = @ + 1]
          /\ rx_snap' = [rx_snap EXCEPT !.stable = FALSE]
    /\ UNCHANGED << sc, vq, rx_mtx >>
    /\ UNCHANGED RxUnch

\* 268-282: len = netbe_recv(sc->vsc_be, iov, n) and the branch on len
Rx268(t) ==
    /\ rx_pc[t] = "l268"
    /\ \/ /\ be.pending # << >>
          /\ be' = [be EXCEPT !.pending = Tail(@)]
          /\ rx_iov' = [rx_iov EXCEPT !.len = Head(be.pending)]
          /\ rx_log' = Append(rx_log,
                              Ev("recv", rx_iov.chain.id, Head(be.pending), FALSE))
          /\ rx_pc' = [rx_pc EXCEPT ![t] = "l285"]
          /\ UNCHANGED << env, rx_snap >>
       \/ /\ be.pending = << >>
          /\ be' = be
          /\ rx_iov' = [rx_iov EXCEPT !.len = 0]
          /\ rx_log' = Append(rx_log, Ev("recv", rx_iov.chain.id, 0, FALSE))
          /\ rx_pc' = [rx_pc EXCEPT ![t] = "l279"]
          /\ UNCHANGED << env, rx_snap >>
       \/ /\ env.errors < MaxErrors
          /\ be' = be
          /\ rx_iov' = [rx_iov EXCEPT !.len = -1]
          /\ rx_log' = Append(rx_log, Ev("recv", rx_iov.chain.id, -1, FALSE))
          /\ rx_pc' = [rx_pc EXCEPT ![t] = "l289"]
          /\ env' = [env EXCEPT !.errors = @ + 1]
          /\ rx_snap' = [rx_snap EXCEPT !.stable = FALSE]
    /\ UNCHANGED << sc, vq, rx_mtx >>
    /\ UNCHANGED RxUnch

\* lines 279-281 as they would be without the vq_retchain
Rx279_no_retchain(t) ==
    /\ rx_pc[t] = "l279"
    /\ vq' = vq
    /\ rx_log' = Append(rx_log, Ev("flush", 0, 0, FALSE))
    /\ rx_iov' = [chain |-> NoChain, len |-> 0]
    /\ rx_pc' = [rx_pc EXCEPT ![t] = "l305"]
    /\ UNCHANGED << sc, be, rx_mtx, env, rx_snap >>
    /\ UNCHANGED RxUnch

\* 279-281: vq_retchain(vq); vq_endchains(vq, 0); return
Rx279(t) ==
    /\ rx_pc[t] = "l279"
    /\ vq' = vq_retchain(VTNET_RXQ, rx_iov.chain)
    /\ rx_log' = rx_log \o << Ev("ret", rx_iov.chain.id, 0, FALSE),
                              Ev("flush", 0, 0, FALSE) >>
    /\ rx_iov' = [chain |-> NoChain, len |-> 0]
    /\ rx_pc' = [rx_pc EXCEPT ![t] = "l305"]
    /\ UNCHANGED << sc, be, rx_mtx, env, rx_snap >>
    /\ UNCHANGED RxUnch

\* 285: vq_relchain(vq, idx, (uint32_t)len)
Rx285(t) ==
    /\ rx_pc[t] = "l285"
    /\ vq' = vq_relchain(VTNET_RXQ, rx_iov.chain, ToU32(rx_iov.len))
    /\ rx_log' = Append(rx_log, Ev("rel", rx_iov.chain.id, rx_iov.len, FALSE))
    /\ rx_iov' = [chain |-> NoChain, len |-> 0]
    /\ rx_pc' = [rx_pc EXCEPT ![t] = "l286"]
    /\ UNCHANGED << sc, be, rx_mtx, env, rx_snap >>
    /\ UNCHANGED RxUnch

\* 286: } while (vq_has_descs(vq))
Rx286(t) ==
    /\ rx_pc[t] = "l286"
    /\ rx_pc' = [rx_pc EXCEPT ![t] =
                    IF vq_has_descs(VTNET_RXQ) THEN "l265" ELSE "l289"]
    /\ UNCHANGED << sc, vq, be, rx_mtx, rx_iov, env, rx_log, rx_snap >>
    /\ UNCHANGED RxUnch

\* line 289 as it would be with vq_endchains(vq, 0)
Rx289_unforced(t) ==
    /\ rx_pc[t] = "l289"
    /\ rx_log' = Append(rx_log, Ev("flush", 0, 0, FALSE))
    /\ rx_pc' = [rx_pc EXCEPT ![t] = "l305"]
    /\ UNCHANGED << sc, vq, be, rx_mtx, rx_iov, env, rx_snap >>
    /\ UNCHANGED RxUnch

\* 289: vq_endchains(vq, 1); pci_vtnet_rx returns and its locals are gone
Rx289(t) ==
    /\ rx_pc[t] = "l289"
    /\ rx_log' = Append(rx_log, Ev("flush", 0, 0, TRUE))
    /\ rx_pc' = [rx_pc EXCEPT ![t] = "l305"]
    /\ UNCHANGED << sc, vq, be, rx_mtx, rx_iov, env, rx_snap >>
    /\ UNCHANGED RxUnch

\* 305: pthread_mutex_unlock(&sc->rx_mtx)
Rx305(t) ==
    /\ rx_pc[t] = "l305"
    /\ rx_mtx' = "none"
    /\ rx_iov' = [chain |-> NoChain, len |-> 0]
    /\ rx_log' = << >>
    /\ rx_snap' = NoSnap
    /\ rx_pc' = [rx_pc EXCEPT ![t] = "idle"]
    /\ UNCHANGED << sc, vq, be, env >>
    /\ UNCHANGED RxUnch

pci_vtnet_rx_callback(t) ==
    \/ RxCallback(t) \/ Rx303(t) \/ Rx243a(t) \/ Rx243b(t) \/ Rx248(t)
    \/ Rx253(t) \/ Rx258(t) \/ Rx259(t) \/ Rx265(t) \/ Rx268(t) \/ Rx279(t)
    \/ Rx285(t) \/ Rx286(t) \/ Rx289(t) \/ Rx305(t)

(***************************************************************************)
(* pci_vtnet_ping_rxq.  The virtio layer calls the notify, reset and       *)
(* negotiation handlers with the device lock (sc->vsc_mtx, line 516) held, *)
(* so none of them runs while pci_vtnet_reset is between its first and     *)
(* its last statement.  pci_vtnet_ping_txq takes tx_mtx itself and is left *)
(* free to overlap a reset.                                                *)
(***************************************************************************)
CtlUnch == << tx_mtx, rx_mtx, tx_wake, tx_pc, tx_iov, ping_pc, rx_pc, rx_iov,
              tx_log, rx_log >>

\* 317-320: the first notify of the RX queue makes the device rx_ready
pci_vtnet_ping_rxq ==
    /\ reset_pc = "idle"
    /\ IF ~sc.vsc_rx_ready
       THEN /\ sc' = [sc EXCEPT !.vsc_rx_ready = TRUE]
            /\ vq' = [vq EXCEPT ![VTNET_RXQ].no_notify = TRUE]
       ELSE UNCHANGED << sc, vq >>
    /\ rx_quiet' = FALSE
    /\ rx_snap' = [rx_snap EXCEPT
                      !.gated = @ /\ (~sc'.vsc_rx_ready \/ sc'.resetting)]
    /\ UNCHANGED << be, reset_pc, env, rs_snap >>
    /\ UNCHANGED CtlUnch

(***************************************************************************)
(* pci_vtnet_neg_features                                                  *)
(***************************************************************************)
FeatureSets ==
    SUBSET {"VIRTIO_NET_F_MRG_RXBUF", "VIRTIO_NET_F_MAC", "VIRTIO_NET_F_STATUS"}

\* sc->rx_vhdrlen -= 2 on an unsigned int
Minus2(x) == IF x >= 2 THEN x - 2 ELSE x + (W16 * W16 - 2)

\* pci_vtnet_neg_features as it would be with netbe_set_cap called before
\* the header length is recomputed
neg_features_stale_cap(negotiated_features) ==
    /\ reset_pc = "idle"
    /\ env.negs < MaxNeg
    /\ LET short == "VIRTIO_NET_F_MRG_RXBUF" \notin negotiated_features
           vhdrlen == IF short THEN Minus2(sc.rx_vhdrlen) ELSE sc.rx_vhdrlen
       IN  /\ sc' = [sc EXCEPT !.vsc_features = negotiated_features,
                               !.rx_merge = IF short THEN FALSE ELSE @,
                               !.rx_vhdrlen = vhdrlen]
           /\ be' = [be EXCEPT !.cap = [set |-> TRUE,
                                        features |-> negotiated_features,
                                        vhdrlen |-> sc.rx_vhdrlen]]
    /\ env' = [env EXCEPT !.negs = @ + 1]
    /\ UNCHANGED << vq, reset_pc, rx_snap, rs_snap, rx_quiet >>
    /\ UNCHANGED CtlUnch

\* 581-590
pci_vtnet_neg_features(negotiated_features) ==
    /\ reset_pc = "idle"
    /\ env.negs < MaxNeg
    /\ LET short == "VIRTIO_NET_F_MRG_RXBUF" \notin negotiated_features
           vhdrlen == IF short THEN Minus2(sc.rx_vhdrlen) ELSE sc.rx_vhdrlen
       IN  /\ sc' = [sc EXCEPT !.vsc_features = negotiated_features,
                               !.rx_merge = IF short THEN FALSE ELSE @,
                               !.rx_vhdrlen = vhdrlen]
           /\ be' = [be EXCEPT !.cap = [set |-> TRUE,
                                        features |-> negotiated_features,
                                        vhdrlen |-> vhdrlen]]
    /\ env' = [env EXCEPT !.negs = @ + 1]
    /\ UNCHANGED << vq, reset_pc, rx_snap, rs_snap, rx_quiet >>
    /\ UNCHANGED CtlUnch

(***************************************************************************)
(* pci_vtnet_reset, with pci_vtnet_txwait and pci_vtnet_rxwait             *)
(***************************************************************************)
\* vi_reset_dev(&sc->vsc_vs): the rings are gone until the guest sets them up
vi_reset_dev ==
    [q \in {VTNET_RXQ, VTNET_TXQ} |->
        [avail |-> << >>, used |-> << >>, no_notify |-> FALSE]]

TxInLoop == tx_pc \in {"l336", "l343", "l346", "l420"}

ResetUnch == << be, tx_mtx, rx_mtx, tx_wake, tx_pc, tx_iov, ping_pc, rx_pc,
                rx_iov, tx_log, rx_log >>

\* 201: sc->resetting = 1
Reset201 ==
    /\ reset_pc = "idle"
    /\ env.resets < MaxResets
    /\ sc' = [sc EXCEPT !.resetting = TRUE]
    /\ reset_pc' = "l171"
    /\ rs_snap' = [taken |-> TRUE, tip |-> sc.tx_in_progress,
                   inloop |-> TxInLoop,
                   ids |-> {vq[VTNET_TXQ].avail[i].id :
                               i \in 1..Len(vq[VTNET_TXQ].avail)}]
    /\ rx_quiet' = FALSE
    /\ UNCHANGED << vq, env, rx_snap >>
    /\ UNCHANGED ResetUnch

\* pci_vtnet_txwait as it would be without the loop on tx_in_progress
txwait_no_loop ==
    /\ reset_pc = "l171"
    /\ tx_mtx = "none"
    /\ reset_pc' = "l189"
    /\ UNCHANGED << sc, vq, env, rx_snap, rs_snap, rx_quiet >>
    /\ UNCHANGED ResetUnch

\* 171-177 (pci_vtnet_txwait): leave once tx_in_progress is seen 0 under tx_mtx
pci_vtnet_txwait ==
    /\ reset_pc = "l171"
    /\ tx_mtx = "none"
    /\ ~sc.tx_in_progress
    /\ reset_pc' = "l189"
    /\ UNCHANGED << sc, vq, env, rx_snap, rs_snap, rx_quiet >>
    /\ UNCHANGED ResetUnch

\* 189-190 (pci_vtnet_rxwait): lock and unlock rx_mtx
pci_vtnet_rxwait ==
    /\ reset_pc = "l189"
    /\ rx_mtx = "none"
    /\ reset_pc' = "l210"
    /\ UNCHANGED << sc, vq, env, rx_snap, rs_snap, rx_quiet >>
    /\ UNCHANGED ResetUnch

\* 210-212: rx_ready = 0, rx_merge = 1, rx_vhdrlen = sizeof(struct virtio_net_rxhdr)
Reset210 ==
    /\ reset_pc = "l210"
    /\ sc' = [sc EXCEPT !.vsc_rx_ready = FALSE,
                        !.rx_merge = TRUE,
                        !.rx_vhdrlen = RXHDR_SIZE]
    /\ env' = [env EXCEPT !.negs = 0]
    /\ reset_pc' = "l215"
    /\ UNCHANGED << vq, rx_snap, rs_snap, rx_quiet >>
    /\ UNCHANGED ResetUnch

\* 215: vi_reset_dev(&sc->vsc_vs)
Reset215 ==
    /\ reset_pc = "l215"
    /\ vq' = vi_reset_dev
    /\ rx_snap' = IF rx_snap.taken THEN [rx_snap EXCEPT !.stable = FALSE]
                  ELSE rx_snap
    /\ reset_pc' = "l217"
    /\ UNCHANGED << sc, env, rs_snap, rx_quiet >>
    /\ UNCHANGED ResetUnch

\* 217: sc->resetting = 0 and return
Reset217 ==
    /\ reset_pc = "l217"
    /\ sc' = [sc EXCEPT !.resetting = FALSE]
    /\ env' = [env EXCEPT !.resets = @ + 1]
    /\ rx_quiet' = TRUE
    /\ rx_snap' = [rx_snap EXCEPT
                      !.gated = @ /\ (~sc'.vsc_rx_ready \/ sc'.resetting)]
    /\ reset_pc' = "idle"
    /\ UNCHANGED << vq, rs_snap >>
    /\ UNCHANGED ResetUnch

pci_vtnet_reset ==
    \/ Reset201 \/ pci_vtnet_txwait \/ pci_vtnet_rxwait
    \/ Reset210 \/ Reset215 \/ Reset217

(***************************************************************************)
(* Specifications.                                                         *)
(***************************************************************************)
\* The whole datapath: the tx thread, both notify callbacks, the receive
\* callbacks and reset, with a guest that posts JointPosts chains on each
\* ring and a network that delivers JointPosts datagrams.
JointPosts == 1

JointTxShape == << U32(0, 60) >>

JointDgramLen == 60

Next ==
    \/ pci_vtnet_tx_thread
    \/ pci_vtnet_ping_txq
    \/ pci_vtnet_ping_rxq
    \/ \E t \in RxThreads : pci_vtnet_rx_callback(t)
    \/ pci_vtnet_reset
    \/ env.tx_posted < JointPosts /\ GuestPostTx(JointTxShape)
    \/ env.rx_posted < JointPosts /\ GuestPostRx
    \/ env.arrived < JointPosts /\ BeArrive(JointDgramLen)

Spec == Init /\ [][Next]_vars

\* The transmit side: the tx thread, the TX notify callback and reset.
TxNext ==
    \/ pci_vtnet_tx_thread
    \/ pci_vtnet_ping_txq
    \/ pci_vtnet_reset
    \/ \E shape \in TxShapes : GuestPostTx(shape)

TxSpec == Init /\ [][TxNext]_vars

\* The receive side: the receive callbacks, the RX notify callback and reset.
RxNext ==
    \/ pci_vtnet_ping_rxq
    \/ \E t \in RxThreads : pci_vtnet_rx_callback(t)
    \/ pci_vtnet_reset
    \/ GuestPostRx
    \/ \E len \in DgramLens : BeArrive(len)

RxSpec == Init /\ [][RxNext]_vars

\* The control path: negotiation, the RX notify and reset, one at a time.
CtlNext ==
    \/ \E bits \in FeatureSets : pci_vtnet_neg_features(bits)
    \/ pci_vtnet_ping_rxq
    \/ pci_vtnet_reset

CtlSpec == Init /\ [][CtlNext]_vars

(***************************************************************************)
(* Reading the history.                                                    *)
(***************************************************************************)
\* the entries of a log that are a given call
Calls(log, o) == SelectSeq(log, LAMBDA e : e.op = o)

\* how often a call was made on a given chain
CallsOn(log, o, i) == Len(SelectSeq(log, LAMBDA e : e.op = o /\ e.id = i))

PulledIds(log) == {log[k].id : k \in {j \in 1..Len(log) : log[j].op = "pull"}}

\* a thread is at the last statement of pci_vtnet_rx_callback
RxReturning(t) == rx_pc[t] = "l305"

\* the tx thread has left the drain loop and flushed
TxBurstOver == tx_pc = "l427"

Min(a, b) == IF a <= b THEN a ELSE b

(***************************************************************************)
(* C1.  Every chain pulled from the RX or the TX queue is finished exactly *)
(* once: vq_relchain or vq_retchain is called on it, never both and never  *)
(* neither, whatever netbe_recv returned.                                  *)
(***************************************************************************)
C1_ExactlyOnce ==
    /\ \A i \in PulledIds(rx_log) :
          /\ CallsOn(rx_log, "rel", i) + CallsOn(rx_log, "ret", i) <= 1
          /\ (\E t \in RxThreads : RxReturning(t)) =>
                CallsOn(rx_log, "rel", i) + CallsOn(rx_log, "ret", i) = 1
    /\ \A i \in PulledIds(tx_log) :
          /\ CallsOn(tx_log, "rel", i) <= 1
          /\ (tx_pc \in {"l420", "l425", "l427"}) => CallsOn(tx_log, "rel", i) = 1

(***************************************************************************)
(* C2.  While pci_vtnet_reset reinitialises the datapath state (from its   *)
(* write of vsc_rx_ready at line 210 until it clears resetting at line     *)
(* 217) the tx thread is not draining: tx_in_progress is 0, it holds no    *)
(* chain and is at no statement of lines 409-427; and no receive callback  *)
(* is past the test of line 243 on the way to the ring: none has pulled,   *)
(* holds, returns or completes a chain.                                    *)
(***************************************************************************)
ResetReinit == reset_pc \in {"l210", "l215", "l217"}

C2_ResetQuiescent ==
    ResetReinit =>
        /\ ~sc.tx_in_progress
        /\ tx_iov.chain = NoChain
        /\ tx_pc \in {"start", "wait394", "wait406", "l399", "l400", "l402", "l405"}
        /\ \A t \in RxThreads :
              rx_pc[t] \in {"idle", "l303", "l243", "l243b", "l248", "l305"}
        /\ rx_iov.chain = NoChain
        /\ PulledIds(rx_log) = {}

\* reset began while the tx thread was draining and reinitialises while the
\* tx thread is awake and a receive callback is at its test of resetting
C2_Witness ==
    /\ reset_pc = "l215"
    /\ rs_snap.tip
    /\ tx_pc = "l402"
    /\ \E t \in RxThreads : rx_pc[t] = "l243b"

(***************************************************************************)
(* C3.  rs_snap is what reset() found at line 201: whether tx_in_progress  *)
(* was set, whether the worker was inside the do-while of lines 413-420,   *)
(* and the chains then queued on the TX queue.                             *)
(***************************************************************************)
\* reset() has left pci_vtnet_txwait, or has returned
ResetPastTxwait == rs_snap.taken /\ reset_pc # "l171"

\* C3 as stated: a reset that starts while tx_in_progress is set gets past
\* its wait for the worker only when every chain that was queued on the TX
\* queue at its start has been sent and completed.
C3_DrainedWhenInProgress ==
    (ResetPastTxwait /\ rs_snap.tip) => rs_snap.ids \subseteq env.tx_done

\* C3 amended: a reset that starts while the worker is inside its drain loop
\* (after it released tx_mtx at line 411 and before it finds the queue empty
\* at line 420) gets past its wait for the worker only when every chain that
\* was queued on the TX queue at its start has been sent and completed.
C3_DrainedWhenInLoop ==
    (ResetPastTxwait /\ rs_snap.inloop) => rs_snap.ids \subseteq env.tx_done

\* a reset that began inside a drain with two chains queued has returned
C3_Witness ==
    /\ reset_pc = "idle" /\ env.resets >= 1
    /\ rs_snap.inloop
    /\ Cardinality(rs_snap.ids) = 2
    /\ rs_snap.ids \subseteq env.tx_done


(***************************************************************************)
(* C4.  rx_quiet holds from the return of reset() to the next notify of    *)
(* the RX queue.                                                           *)
(***************************************************************************)
\* C4: in the state in which reset() returns, rx_ready is false,
\* merge_buffers is true, rx_header_len is the 12-byte form, resetting and
\* tx_in_progress are false; and from that return until the guest next
\* notifies the RX queue no step publishes a completion on the RX queue.
C4_ResetLeavesAttachState ==
    [][ /\ (reset_pc = "l217" /\ reset_pc' = "idle") =>
              /\ ~sc'.vsc_rx_ready
              /\ sc'.rx_merge
              /\ sc'.rx_vhdrlen = RXHDR_SIZE
              /\ ~sc'.resetting
              /\ ~sc'.tx_in_progress
        /\ (rx_quiet /\ rx_quiet') =>
              vq'[VTNET_RXQ].used = vq[VTNET_RXQ].used ]_vars

(***************************************************************************)
(* C5.  rx_snap.gated: since the running receive call took rx_mtx the      *)
(* device has at every moment been not rx_ready or resetting.              *)
(***************************************************************************)
\* the receive call that holds rx_mtx
RxRunning(t) == rx_mtx = t /\ rx_pc[t] # "idle"

\* C5: a receive invocation that runs while rx_ready is false or resetting
\* is true makes one receive into the scratch buffer (exactly one once it
\* returns), pulls no chain, returns and completes none, and issues no
\* interrupt flush.
C5_DiscardOnly ==
    \A t \in RxThreads :
        (RxRunning(t) /\ rx_snap.gated) =>
            /\ Len(Calls(rx_log, "discard")) <= 1
            /\ RxReturning(t) => Len(Calls(rx_log, "discard")) = 1
            /\ Calls(rx_log, "pull") = << >>
            /\ Calls(rx_log, "ret") = << >>
            /\ Calls(rx_log, "rel") = << >>
            /\ Calls(rx_log, "flush") = << >>

(***************************************************************************)
(* C6.  The transmit side with no reset, under fair scheduling: every step *)
(* of the worker is taken when it stays possible, a mutex is obtained when *)
(* it is free again and again, a signalled wait returns, and a notify that *)
(* the guest owes is delivered.  A wait that was not signalled need not    *)
(* return (TxSpuriousWake is not fair).                                    *)
(***************************************************************************)
FairTxNext ==
    \/ pci_vtnet_tx_thread
    \/ pci_vtnet_ping_txq
    \/ \E shape \in TxShapes : GuestPostTx(shape)

TxFairness ==
    /\ SF_vars(Tx393) /\ SF_vars(TxWake) /\ SF_vars(Tx427)
    /\ WF_vars(Tx399a) /\ WF_vars(Tx399b) /\ WF_vars(Tx400)
    /\ WF_vars(Tx402a) /\ WF_vars(Tx402b) /\ WF_vars(Tx405)
    /\ WF_vars(Tx409) /\ WF_vars(Tx336) /\ WF_vars(Tx343)
    /\ WF_vars(Tx346) /\ WF_vars(Tx420) /\ WF_vars(Tx425)
    /\ WF_vars(env.kick /\ Ping358)
    /\ SF_vars(Ping362)

FairTxSpec == Init /\ [][FairTxNext]_vars /\ TxFairness

\* C6: a chain the guest posts on the TX queue, with the notify register
\* written whenever notifications are not suppressed, is eventually sent to
\* the backend and completed.
C6_NoMissedWakeup ==
    \A i \in 1..MaxTxPost : (env.tx_posted >= i) ~> (i \in env.tx_done)

(***************************************************************************)
(* C7.  tx_log at line 427 is the whole drain burst; a "pull" entry        *)
(* carries the sum of the chain's segment lengths as a number.             *)
(***************************************************************************)
\* C7: a drain burst is, for each chain pulled, one backend send of the sum
\* of the chain's segment lengths and then one completion of that chain
\* with the same sum, and after all of them exactly one interrupt flush.
C7_SendAndCompleteSum ==
    TxBurstOver =>
        LET n == Len(Calls(tx_log, "pull"))
        IN  /\ n >= 1
            /\ Len(tx_log) = 3 * n + 1
            /\ \A k \in 1..n :
                  LET pull == tx_log[3 * k - 2]
                      send == tx_log[3 * k - 1]
                      rel  == tx_log[3 * k]
                  IN  /\ pull.op = "pull"
                      /\ send.op = "send" /\ send.id = pull.id
                      /\ send.len = pull.len
                      /\ rel.op = "rel" /\ rel.id = pull.id
                      /\ rel.len = pull.len
            /\ tx_log[3 * n + 1].op = "flush"

(***************************************************************************)
(* C8.  rx_snap is the RX queue and the backend as the receive call found  *)
(* them at line 253 with chains available: n chains, the pending           *)
(* datagrams; it stays stable while no datagram arrives, no chain is       *)
(* posted, the backend reports no error and the rings are not reset.       *)
(***************************************************************************)
\* the receive call that is returning filled chains from a stable snapshot
RxFilled(t) == RxReturning(t) /\ rx_snap.taken /\ rx_snap.stable

\* the completions of the receive call, in order
RxCompletions == Calls(rx_log, "rel")

C8_Fill ==
    \A t \in RxThreads :
        RxFilled(t) =>
            LET n == rx_snap.n
                k == Len(rx_snap.pending)
                m == Min(n, k)
            IN  /\ n >= 1
                /\ Len(RxCompletions) = m
                /\ \A i \in 1..m : RxCompletions[i].len = rx_snap.pending[i]
                /\ Len(vq[VTNET_RXQ].avail) = n - m
                /\ Len(Calls(rx_log, "ret")) = IF k < n THEN 1 ELSE 0
                /\ Len(be.pending) = k - m

\* C8: a notify of the RX queue leaves rx_ready true; and a receive call
\* that finds n >= 1 chains available and k datagrams pending, with no
\* backend error, publishes min(n, k) completions, the i-th with the length
\* of the i-th datagram, and leaves n - min(n, k) chains available (the chain
\* pulled when no data was left is returned unused).
C8_ReadyThenFill ==
    [][ /\ pci_vtnet_ping_rxq => sc'.vsc_rx_ready
        /\ C8_Fill' ]_vars

\* rx_ready since a notify, no reset: two chains were available and one
\* datagram of 1500 bytes pending; one completion of 1500, one chain left
C8_Witness ==
    \E t \in RxThreads :
        /\ RxFilled(t)
        /\ sc.vsc_rx_ready /\ ~sc.resetting /\ env.resets = 0
        /\ rx_snap.n = 2 /\ rx_snap.pending = << 1500 >>
        /\ Len(RxCompletions) = 1 /\ RxCompletions[1].len = 1500
        /\ Len(vq[VTNET_RXQ].avail) = 1
        /\ vq[VTNET_RXQ].used = << [id |-> 1, len |-> U32(0, 1500)] >>

(***************************************************************************)
(* C9 and C10.  env.negs counts the negotiations since attach or since the *)
(* last reset; be.cap is what netbe_set_cap was last called with.          *)
(***************************************************************************)
MrgRxbuf(bits) == "VIRTIO_NET_F_MRG_RXBUF" \in bits

\* C9: a negotiation on the state left by attach or by reset stores the
\* bits, leaves rx_merge true and rx_vhdrlen 12 with the merged-buffer bit
\* and rx_merge false and rx_vhdrlen 10 without it, and hands the backend
\* the bits and the header length the device then holds.
C9_FirstNegotiation ==
    [][ \A bits \in FeatureSets :
            (env.negs = 0 /\ pci_vtnet_neg_features(bits)) =>
                /\ sc'.vsc_features = bits
                /\ sc'.rx_merge = MrgRxbuf(bits)
                /\ sc'.rx_vhdrlen = IF MrgRxbuf(bits) THEN RXHDR_SIZE
                                    ELSE RXHDR_SIZE - 2
                /\ be'.cap.set
                /\ be'.cap.features = bits
                /\ be'.cap.vhdrlen = sc'.rx_vhdrlen ]_vars

\* the first negotiation after a reset, without the merged-buffer bit
C9_Witness ==
    /\ env.resets >= 1 /\ env.negs = 1 /\ reset_pc = "idle"
    /\ ~MrgRxbuf(sc.vsc_features)
    /\ ~sc.rx_merge /\ sc.rx_vhdrlen = 10
    /\ be.cap = [set |-> TRUE, features |-> sc.vsc_features, vhdrlen |-> 10]

\* C10: rx_vhdrlen is 10 or 12, it is 12 exactly when rx_merge is true, and
\* after a negotiation both are what the negotiated features determine.
C10_HeaderLenInvariant ==
    /\ sc.rx_vhdrlen \in {RXHDR_SIZE - 2, RXHDR_SIZE}
    /\ sc.rx_vhdrlen = RXHDR_SIZE <=> sc.rx_merge
    /\ env.negs >= 1 => (sc.rx_merge <=> MrgRxbuf(sc.vsc_features))

(***************************************************************************)
(* pci_vtnet_cfgwrite and pci_vtnet_cfgread.  The virtio layer hands over  *)
(* accesses of 1, 2 or 4 bytes that lie inside the register block, with    *)
(* the device lock held.                                                   *)
(***************************************************************************)
CFG_SIZE == 10      \* sizeof(struct virtio_net_config)

CfgSizes == {1, 2, 4}

CfgValues == {287454020}     \* 0x11223344

\* byte i (from 0) of a uint32_t as memcpy finds it in memory
ByteOf(value, i) == (value \div (256 ^ i)) % 256

\* struct virtio_net_config as bytes
ConfigBytes(cfg) ==
    cfg.mac \o << cfg.status % 256, cfg.status \div 256,
                  cfg.max_virtqueue_pairs % 256,
                  cfg.max_virtqueue_pairs \div 256 >>

CfgAccess(offset, size) ==
    /\ env.attach = 0
    /\ ~env.halted
    /\ reset_pc = "idle"
    /\ offset + size <= CFG_SIZE

CfgUnch == << vq, be, tx_mtx, rx_mtx, tx_wake, tx_pc, tx_iov, ping_pc, rx_pc,
              rx_iov, reset_pc, tx_log, rx_log, rx_snap, rs_snap, rx_quiet >>

\* pci_vtnet_cfgwrite as it would be without the test of the offset
cfgwrite_any_offset(offset, size, value) ==
    /\ CfgAccess(offset, size)
    /\ env.cfg_writes < MaxCfgWrites
    /\ LET old == ConfigBytes(sc.vsc_config)
           new == [i \in 1..CFG_SIZE |->
                     IF offset < i /\ i <= offset + size
                     THEN ByteOf(value, i - offset - 1) ELSE old[i]]
       IN  sc' = [sc EXCEPT !.vsc_config =
                    [mac |-> SubSeq(new, 1, MAC_SIZE),
                     status |-> new[7] + 256 * new[8],
                     max_virtqueue_pairs |-> new[9] + 256 * new[10]]]
    /\ env' = [env EXCEPT !.cfg_writes = @ + 1,
                          !.cfg_rc = 0]
    /\ UNCHANGED CfgUnch

\* 550-562: a write below the end of the MAC address is copied into it (the
\* assert ends the process when it would run past the address), any other
\* write is ignored; returns 0
pci_vtnet_cfgwrite(offset, size, value) ==
    /\ CfgAccess(offset, size)
    /\ env.cfg_writes < MaxCfgWrites
    /\ IF offset < MAC_SIZE
       THEN IF offset + size <= MAC_SIZE
            THEN /\ sc' = [sc EXCEPT !.vsc_config.mac =
                            [i \in 1..MAC_SIZE |->
                                IF offset < i /\ i <= offset + size
                                THEN ByteOf(value, i - offset - 1) ELSE @[i]]]
                 /\ env' = [env EXCEPT !.cfg_writes = @ + 1,
                                       !.cfg_rc = 0]
            ELSE /\ sc' = sc
                 /\ env' = [env EXCEPT !.cfg_writes = @ + 1,
                                       !.halted = TRUE]
       ELSE /\ sc' = sc
            /\ env' = [env EXCEPT !.cfg_writes = @ + 1,
                                  !.cfg_rc = 0]
    /\ UNCHANGED CfgUnch

\* 571-573: copy size bytes of the register block from offset; returns 0
pci_vtnet_cfgread(offset, size) ==
    /\ CfgAccess(offset, size)
    /\ env.cfg_reads < MaxCfgReads
    /\ env' = [env EXCEPT
                 !.cfg_reads = @ + 1,
                 !.cfg_read = SubSeq(ConfigBytes(sc.vsc_config),
                                     offset + 1, offset + size),
                 !.cfg_rc = 0]
    /\ sc' = sc
    /\ UNCHANGED CfgUnch

\* The register block: config reads and writes.
CfgNext ==
    \/ \E offset \in 0..(CFG_SIZE - 1), size \in CfgSizes, value \in CfgValues :
          pci_vtnet_cfgwrite(offset, size, value)
    \/ \E offset \in 0..(CFG_SIZE - 1), size \in CfgSizes :
          pci_vtnet_cfgread(offset, size)

CfgSpec == Init /\ [][CfgNext]_vars

\* The same after every way attach can go.
AttachSpec == AttachInit /\ [][CfgNext]_vars

(***************************************************************************)
(* C11.  env.cfg_rc is what the last config access returned.               *)
(***************************************************************************)
\* C11: a config write at offset o < 6 with o + size <= 6 sets the MAC bytes
\* o .. o+size-1 to the low-order bytes of the value and changes nothing
\* else; a write at an offset >= 6 returns 0 and changes no byte of the
\* register block; no config write changes status or max_virtqueue_pairs.
C11_CfgWrite ==
    [][ \A offset \in 0..(CFG_SIZE - 1), size \in CfgSizes, value \in CfgValues :
            (env'.cfg_writes # env.cfg_writes
                /\ pci_vtnet_cfgwrite(offset, size, value)) =>
                LET old == sc.vsc_config
                    new == sc'.vsc_config
                IN  /\ (offset < MAC_SIZE /\ offset + size <= MAC_SIZE) =>
                          /\ \A i \in 1..MAC_SIZE :
                                new.mac[i] =
                                    IF offset < i /\ i <= offset + size
                                    THEN ByteOf(value, i - offset - 1)
                                    ELSE old.mac[i]
                          /\ ~env'.halted /\ env'.cfg_rc = 0
                    /\ offset >= MAC_SIZE =>
                          /\ ConfigBytes(new) = ConfigBytes(old)
                          /\ ~env'.halted /\ env'.cfg_rc = 0
                    /\ new.status = old.status
                    /\ new.max_virtqueue_pairs = old.max_virtqueue_pairs
                    /\ [sc' EXCEPT !.vsc_config = old] = sc ]_vars

\* the last MAC byte was written with one byte of 0x11223344, a second write
\* was accepted, and the last MAC byte and the status were read back
C11_Witness ==
    /\ env.cfg_writes = 2 /\ ~env.halted /\ env.cfg_rc = 0
    /\ sc.vsc_config.mac = [GenMac EXCEPT ![MAC_SIZE] = 68]
    /\ sc.vsc_config.status = 1
    /\ sc.vsc_config.max_virtqueue_pairs = 0
    /\ env.cfg_read = << 68, 1 >>

(***************************************************************************)
(* C12.  env.opts and env.intr_ok are what attach was given, env.attach    *)
(* the value pci_vtnet_init returned; be.open is sc->vsc_be != NULL.       *)
(***************************************************************************)
\* C12: attach succeeds whether or not a backend was opened, and after it
\* the status register advertises link up exactly when a backend is open:
\* link down when none was requested or it failed to open.
C12_LinkFollowsBackend ==
    /\ (env.opts # "dev,badmac" /\ env.intr_ok) => env.attach = 0
    /\ env.attach = 0 => (sc.vsc_config.status = 1 <=> be.open)

(***************************************************************************)
(* C13.                                                                    *)
(***************************************************************************)
\* the threads inside pci_vtnet_rx (between lines 303 and 305)
InReceivePath == {t \in RxThreads : rx_pc[t] \notin {"idle", "l303"}}

\* TX chains pulled and not yet completed in the current burst
TxChainsInHand == Len(Calls(tx_log, "pull")) - Len(Calls(tx_log, "rel"))

\* C13: at most one thread executes the receive path, and it is the owner
\* of rx_mtx; at most one TX chain is between its pull and its completion,
\* in the hands of the tx thread.
C13_OneAtATime ==
    /\ Cardinality(InReceivePath) <= 1
    /\ \A t \in InReceivePath : rx_mtx = t
    /\ TxChainsInHand \in {0, 1}
    /\ TxChainsInHand = 1 <=> tx_pc \in {"l343", "l346"}
    /\ TxChainsInHand = 1 <=> tx_iov.chain # NoChain

\* one callback fills a chain while the other waits for rx_mtx and the tx
\* thread holds a chain
C13_Witness ==
    /\ rx_pc["ev1"] = "l268" /\ rx_pc["ev2"] = "l303"
    /\ rx_iov.chain # NoChain
    /\ tx_pc = "l343"

(***************************************************************************)
(* C14.  The datapath under fair scheduling: a thread that can take a step *)
(* takes one, and a thread that tries for a mutex that is free again and   *)
(* again gets it (the polling loop of pci_vtnet_txwait, lines 172-176,     *)
(* tries tx_mtx every 10 ms).  The guest posts JointPosts chains on the TX *)
(* queue and MaxRxPost on the RX queue, the network delivers JointPosts    *)
(* datagrams, every backend call returns, and one event thread delivers    *)
(* the receive callbacks.                                                  *)
(***************************************************************************)
FairResetNext ==
    \/ pci_vtnet_tx_thread
    \/ pci_vtnet_ping_txq
    \/ pci_vtnet_ping_rxq
    \/ pci_vtnet_rx_callback("ev1")
    \/ pci_vtnet_reset
    \/ env.tx_posted < JointPosts /\ GuestPostTx(JointTxShape)
    \/ GuestPostRx
    \/ env.arrived < JointPosts /\ BeArrive(JointDgramLen)

TxLockSteps == Tx393 \/ TxWake \/ Tx427

TxFreeSteps ==
    \/ Tx399a \/ Tx399b \/ Tx400 \/ Tx402a \/ Tx402b \/ Tx405 \/ Tx409
    \/ Tx336 \/ Tx343 \/ Tx346 \/ Tx420 \/ Tx425

RxFreeSteps(t) ==
    \/ Rx243a(t) \/ Rx243b(t) \/ Rx248(t) \/ Rx253(t) \/ Rx258(t)
    \/ Rx259(t) \/ Rx265(t) \/ Rx268(t) \/ Rx279(t) \/ Rx285(t)
    \/ Rx286(t) \/ Rx289(t) \/ Rx305(t)

\* Weak fairness for the tx thread and the event thread: whenever one of
\* them waits for a mutex in this specification the mutex is free (no other
\* thread holds tx_mtx or rx_mtx from one step to the next).  Strong
\* fairness for pci_vtnet_reset, whose pci_vtnet_txwait and pci_vtnet_rxwait
\* try for mutexes that the other two take and release again and again.
ResetFairness ==
    /\ SF_vars(pci_vtnet_txwait \/ pci_vtnet_rxwait
                    \/ Reset210 \/ Reset215 \/ Reset217)
    /\ WF_vars(TxLockSteps \/ TxFreeSteps)
    /\ WF_vars(Rx303("ev1") \/ RxFreeSteps("ev1"))

FairResetSpec == Init /\ [][FairResetNext]_vars /\ ResetFairness

\* C14: a call of pci_vtnet_reset that has set resetting eventually returns
\* (the device is again and again outside pci_vtnet_reset), and when it has
\* returned resetting is 0.
C14_ResetReturns ==
    /\ []<>(reset_pc = "idle")
    /\ [](reset_pc = "idle" => ~sc.resetting)

\* a reset that began while the tx thread was inside its drain loop has
\* returned
C14_Witness ==
    /\ reset_pc = "idle" /\ ~sc.resetting
    /\ rs_snap.taken /\ rs_snap.inloop
    /\ env.resets >= 1

(***************************************************************************)
(* C15.  resetting is stored at lines 201 and 217 with neither tx_mtx nor  *)
(* rx_mtx held, and read at lines 243 and 399.                             *)
(***************************************************************************)
\* the tx thread goes from idle to draining (line 410)
TxStartsDraining == ~sc.tx_in_progress /\ sc'.tx_in_progress

\* a receive invocation pulls its first chain (line 265)
RxPullsFirst ==
    /\ Len(Calls(rx_log, "pull")) = 0
    /\ Len(Calls(rx_log', "pull")) = 1

\* C15: the tx thread never sets tx_in_progress while resetting is 1, and a
\* receive invocation never pulls its first chain while resetting is 1.
C15_NoNewWorkWhileResetting ==
    [][ /\ TxStartsDraining => ~sc.resetting
        /\ RxPullsFirst => ~sc.resetting ]_vars

(***************************************************************************)
(* C16.  tx_in_progress is 0 from pci_vtnet_init (line 536), set at line   *)
(* 410 and cleared at line 405, both between the lock of line 393/427 (or  *)
(* the return of pthread_cond_wait) and the next unlock or wait.           *)
(***************************************************************************)
\* the tx thread has pulled a chain (line 336) and not yet completed it
\* (line 346)
TxChainInHand == tx_pc \in {"l343", "l346"}

\* C16: while the tx thread waits on tx_cond, the first wait included,
\* tx_in_progress is 0; while it has a chain in hand tx_in_progress is 1 and
\* it does not hold tx_mtx; and tx_in_progress changes only in a step of the
\* tx thread that starts with tx_mtx held by the tx thread.
C16_PhaseAgrees ==
    /\ [](TxWaiting => ~sc.tx_in_progress)
    /\ [](TxChainInHand => sc.tx_in_progress /\ tx_mtx # "tx")
    /\ [][sc'.tx_in_progress # sc.tx_in_progress =>
            tx_mtx = "tx" /\ tx_pc \in {"l405", "l409"}]_vars

\* the tx thread has a chain in hand, having completed another before, while
\* a ping is past its queue test and about to lock tx_mtx
C16_Witness ==
    /\ TxChainInHand /\ sc.tx_in_progress /\ tx_mtx = "none"
    /\ ping_pc = "l362"
    /\ env.tx_done # {}

(***************************************************************************)
(* C17.  rx_log at line 305 is the whole receive invocation.  After a      *)
(* "pull" the invocation is in the fill loop of lines 263-286, which it    *)
(* leaves at line 280 (zero bytes), line 271 (error) or line 286 (no more  *)
(* available chains).                                                      *)
(***************************************************************************)
\* the invocation that is returning pulled a chain
RxEnteredLoop == Calls(rx_log, "pull") # << >>

\* C17: a receive invocation that entered the fill loop made exactly one
\* interrupt flush, as its last call on the queue and so after all its
\* completions; the flush is not forced when the loop ended on a read of
\* zero bytes, and forced when it ended with the queue out of chains.
C17_OneFlushAtEnd ==
    \A t \in RxThreads :
        (RxReturning(t) /\ RxEnteredLoop) =>
            LET n    == Len(rx_log)
                last == rx_log[n]
                prev == rx_log[n - 1]
            IN  /\ Len(Calls(rx_log, "flush")) = 1
                /\ last.op = "flush"
                /\ prev.op \in {"ret", "rel", "recv"}
                /\ prev.op = "ret" <=> rx_log[n - 2] = Ev("recv", prev.id, 0, FALSE)
                /\ prev.op = "ret" => ~last.force
                /\ prev.op = "rel" => last.force
                /\ prev.op = "recv" => prev.len < 0

\* an invocation completed a chain, pulled another, read zero bytes and
\* flushed without force
C17_Witness ==
    \E t \in RxThreads :
        /\ RxReturning(t)
        /\ Calls(rx_log, "rel") # << >>
        /\ rx_log[Len(rx_log) - 1].op = "ret"
        /\ ~rx_log[Len(rx_log)].force

\* an invocation completed chains until the queue was out of them
C17_RanOut ==
    \E t \in RxThreads :
        /\ RxReturning(t)
        /\ Len(Calls(rx_log, "rel")) = 2
        /\ rx_log[Len(rx_log) - 1].op = "rel"
        /\ rx_log[Len(rx_log)].force

(***************************************************************************)
(* C18.  A negative netbe_recv leaves the loop by the break of line 271,   *)
(* and the statement after the loop is vq_endchains(vq, 1) at line 289.    *)
(***************************************************************************)
\* the invocation that is returning ended on a read error
RxEndedOnError ==
    \E k \in 1..Len(rx_log) : rx_log[k].op = "recv" /\ rx_log[k].len < 0

\* C18, as stated: an invocation whose read failed makes no forced
\* interrupt flush.
C18_NoForcedFlushOnError ==
    \A t \in RxThreads :
        (RxReturning(t) /\ RxEndedOnError) =>
            \A k \in 1..Len(rx_log) :
                ~(rx_log[k].op = "flush" /\ rx_log[k].force)

\* C18, amended: an invocation whose read failed leaves the fill loop at
\* once (the failed read is the last call but one) and ends with exactly
\* one interrupt flush, which is forced.
C18_ForcedFlushOnError ==
    \A t \in RxThreads :
        (RxReturning(t) /\ RxEndedOnError) =>
            LET n == Len(rx_log)
            IN  /\ rx_log[n] = Ev("flush", 0, 0, TRUE)
                /\ rx_log[n - 1].op = "recv" /\ rx_log[n - 1].len < 0
                /\ Len(Calls(rx_log, "flush")) = 1

\* an invocation completed a chain, pulled another, and the read failed
C18_Witness ==
    \E t \in RxThreads :
        /\ RxReturning(t) /\ RxEndedOnError
        /\ Calls(rx_log, "rel") # << >>

(***************************************************************************)
(* C19.  VRING_USED_F_NO_NOTIFY on the TX queue is set at lines 362 and    *)
(* 409 and cleared at line 400; tx_wake is a pthread_cond_signal that      *)
(* found the tx thread waiting and has not yet been consumed.              *)
(***************************************************************************)
\* C19: the tx thread is never waiting on tx_cond, with no signal on its
\* way, while notifications of the TX queue are suppressed.
C19_NoSleepSuppressed ==
    (TxWaiting /\ ~tx_wake) => ~vq[VTNET_TXQ].no_notify

(***************************************************************************)
(* C20.  The branch of lines 253-261: pci_vtnet_rx_discard calls           *)
(* netbe_recv once and does not look at what it returns (line 232); the    *)
(* log entry of a discard carries the calling line and the result.         *)
(***************************************************************************)
\* the invocation that is returning found the RX queue without a chain at
\* line 253, after reading rx_ready as 1 and resetting as 0 at line 243
RxFoundNoChain ==
    \E k \in 1..Len(rx_log) : rx_log[k].op = "discard" /\ rx_log[k].id = 258

\* C20, as stated: such an invocation drops exactly one datagram of the
\* backend, pulls and completes no chain and makes one forced flush.
C20_DropsExactlyOne ==
    \A t \in RxThreads :
        (RxReturning(t) /\ RxFoundNoChain) =>
            /\ Len(rx_log) = 2
            /\ rx_log[1].op = "discard" /\ rx_log[1].len > 0
            /\ rx_log[2] = Ev("flush", 0, 0, TRUE)

\* C20, amended: such an invocation reads the backend exactly once into the
\* scratch buffer, which drops one datagram if the read returns one and
\* none if it returns zero or fails; it pulls and completes no chain and
\* makes one forced flush.
C20_ReadsOnceAndFlushes ==
    \A t \in RxThreads :
        (RxReturning(t) /\ RxFoundNoChain) =>
            /\ Len(rx_log) = 2
            /\ rx_log[1].op = "discard" /\ rx_log[1].id = 258
            /\ rx_log[1].len \in DgramLens \cup {0, -1}
            /\ rx_log[2] = Ev("flush", 0, 0, TRUE)
            /\ rx_iov.chain = NoChain

\* an invocation found no chain, dropped a datagram and flushed
C20_Witness ==
    \E t \in RxThreads :
        /\ RxReturning(t)
        /\ sc.vsc_rx_ready /\ ~sc.resetting
        /\ rx_log = << Ev("discard", 258, 60, FALSE), Ev("flush", 0, 0, TRUE) >>

=============================================================================
